---- MODULE Spec2Model ----
(***************************************************************************)
(* Model of app.py of the F1 analytics dashboard: the module-level data    *)
(* loading (lines 16-76), the year slider of the layout (lines 137-145)    *)
(* and the eight Dash callbacks (lines 519-887).                           *)
(*                                                                         *)
(* A DataFrame is a record [cols, rows]: the set of its column names and   *)
(* the sequence of its rows, each row a record.  Strings that the program  *)
(* only compares and sorts (names, nationalities, countries) are modelled  *)
(* by integer codes whose order is the strings' lexicographic order.       *)
(* Cells of the position, points and grid columns are text as read from    *)
(* the CSV file until pd.to_numeric converts them.                         *)
(***************************************************************************)
EXTENDS Integers, Sequences, FiniteSets, TLC

VARIABLES
    disk,                \* the data/ directory: file name -> [status, cols, rows]
    sort_stable,         \* whether the installed sort keeps equal values in order
    pc,                  \* position of the module-level code
    exc,                 \* the exception in flight or escaped, "none" if none
    races, results, drivers, constructors, circuits,   \* frames read so far
    df, winners, podiums, poles,                       \* fact table and views
    driver_points, constructor_points,
    min_year, max_year,
    all_drivers, all_constructors, all_circuits,
    slider,              \* the year RangeSlider of the layout
    out,                 \* the response of the callback that has just run
    frame,               \* that callback's local tables when it finished
    earlier              \* a response another session received before

loaded == <<races, results, drivers, constructors, circuits>>
views == <<df, winners, podiums, poles, driver_points, constructor_points,
           min_year, max_year, all_drivers, all_constructors, all_circuits>>
vars == <<disk, sort_stable, pc, exc, loaded, views, slider, out, frame, earlier>>

(***************************************************************************)
(* Bounds of the model                                                     *)
(***************************************************************************)
\* number of extra single-win drivers in the large data sets
MaxFill == 16
\* number of seasons, from 2001 on, a slider handle is moved to
SliderSteps == 3

(***************************************************************************)
(* Values                                                                  *)
(***************************************************************************)
\* float('nan'): the cells are never negative, so -1 is free to stand for it
NaN == -1
\* Python's None
None == [cb |-> "none"]
\* a name that is not bound yet
NoFrame == [cols |-> {}, rows |-> <<>>]
NoSlider == [min |-> NaN, max |-> NaN, value |-> <<NaN, NaN>>]

\* decimal text of the numbers that occur in the position/points/grid cells
NumText == <<"0", "1", "2", "3", "4", "5", "6", "7", "8", "9", "10">>

\* pd.to_numeric(cell, errors='coerce')
ToNumeric(text) ==
    IF \E n \in 1..Len(NumText) : NumText[n] = text
    THEN (CHOOSE n \in 1..Len(NumText) : NumText[n] = text) - 1
    ELSE NaN

\* drivers['forename'] + ' ' + drivers['surname'] on name codes: surnames
\* are below NameRadix, so the code orders names like the concatenation
NameRadix == 100
DriverName(forename, surname) == forename * NameRadix + surname

(***************************************************************************)
(* Sequence helpers                                                        *)
(***************************************************************************)
RECURSIVE Flatten(_)
Flatten(ss) == IF ss = <<>> THEN <<>> ELSE Head(ss) \o Flatten(Tail(ss))

Range(s) == {s[i] : i \in 1..Len(s)}

Min(S) == CHOOSE x \in S : \A y \in S : x <= y
Max(S) == CHOOSE x \in S : \A y \in S : x >= y

\* sorted(...) of a set of codes
RECURSIVE Sorted(_)
Sorted(S) == IF S = {} THEN <<>> ELSE <<Min(S)>> \o Sorted(S \ {Min(S)})

(***************************************************************************)
(* The data/ directory                                                     *)
(***************************************************************************)
FileNames == <<"races", "results", "drivers", "constructors", "circuits">>

RacesCols == {"raceId", "year", "name", "circuitId"}
ResultsCols == {"resultId", "raceId", "driverId", "constructorId",
                "position", "points", "grid"}
DriversCols == {"driverId", "forename", "surname", "nationality"}
ConstructorsCols == {"constructorId", "name", "nationality"}
CircuitsCols == {"circuitId", "name", "country"}

Race(id, y, c) == [raceId |-> id, year |-> y, name |-> id, circuitId |-> c]
Result(id, r, d, k, pos, pts, g) ==
    [resultId |-> id, raceId |-> r, driverId |-> d, constructorId |-> k,
     position |-> pos, points |-> pts, grid |-> g]
Driver(id, f, s, n) ==
    [driverId |-> id, forename |-> f, surname |-> s, nationality |-> n]
Constructor(id, n, nat) == [constructorId |-> id, name |-> n, nationality |-> nat]
Circuit(id, n, c) == [circuitId |-> id, name |-> n, country |-> c]

\* two seasons with a season without races between them
BaseRaces == <<Race(1, 2001, 1), Race(2, 2001, 2),
               Race(3, 2003, 1), Race(4, 2003, 2), Race(5, 2003, 1)>>
BaseDrivers == <<Driver(1, 1, 1, 1), Driver(2, 1, 2, 2), Driver(3, 1, 3, 2)>>
BaseConstructors == <<Constructor(1, 1, 1), Constructor(2, 2, 3)>>
BaseCircuits == <<Circuit(1, 1, 1), Circuit(2, 2, 2)>>

\* the result rows a results.csv is drawn from; row 7 names a driver that
\* drivers.csv does not have, row 4 is a non-finisher who started from pole,
\* row 2 has no grid position and row 6 no points
ResultPool ==
    <<Result(1, 1, 1, 1, "1", "10", "1"),
      Result(2, 1, 2, 2, "2", "8", "\\N"),
      Result(3, 2, 1, 1, "1", "10", "2"),
      Result(4, 2, 3, 2, "\\N", "0", "1"),
      Result(5, 3, 2, 1, "1", "10", "1"),
      Result(6, 4, 1, 2, "1", "\\N", "3"),
      Result(7, 3, 9, 2, "3", "6", "4"),
      Result(8, 5, 2, 2, "1", "10", "1")>>

SubSeq01(s, keep) == SelectSeq(s, LAMBDA r : r.resultId \in keep)

\* filler i is one more race of the first season, won from pole by a driver
\* and a constructor of its own, at a circuit of its own or at circuit 1
FillId(i) == 10 + i
FillRaces(n, shared) ==
    [i \in 1..n |-> Race(FillId(i), 2001, IF shared THEN 1 ELSE FillId(i))]
FillResults(n) ==
    [i \in 1..n |-> Result(FillId(i), FillId(i), FillId(i), FillId(i), "1", "10", "1")]
FillDrivers(n) == [i \in 1..n |-> Driver(FillId(i), 2, i, FillId(i))]
FillConstructors(n) == [i \in 1..n |-> Constructor(FillId(i), FillId(i), FillId(i))]
FillCircuits(n, shared) ==
    IF shared THEN <<>> ELSE [i \in 1..n |-> Circuit(FillId(i), FillId(i), FillId(i))]

File(cols, rows) == [status |-> "ok", cols |-> cols, rows |-> rows]

\* a readable data set: a choice of pool rows and n fillers
Dataset(keep, n, shared) ==
    [races |-> File(RacesCols, BaseRaces \o FillRaces(n, shared)),
     results |-> File(ResultsCols, SubSeq01(ResultPool, keep) \o FillResults(n)),
     drivers |-> File(DriversCols, BaseDrivers \o FillDrivers(n)),
     constructors |-> File(ConstructorsCols, BaseConstructors \o FillConstructors(n)),
     circuits |-> File(CircuitsCols, BaseCircuits \o FillCircuits(n, shared))]

PoolIds == 1..Len(ResultPool)
FullDataset == Dataset(PoolIds, 0, FALSE)

\* the column of each file that the merges select and a damaged file lacks
KeyColumn == [races |-> "circuitId", results |-> "raceId", drivers |-> "driverId",
              constructors |-> "constructorId", circuits |-> "circuitId"]

\* what is wrong with a file: absent, not permitted, not parseable, or
\* parseable but without a column the merges reference
Damages == {"missing", "denied", "garbled", "nocolumn"}

Damage(d, f, how) ==
    [d EXCEPT ![f] = IF how = "nocolumn"
                     THEN [d[f] EXCEPT !.cols = @ \ {KeyColumn[f]}]
                     ELSE [d[f] EXCEPT !.status = how]]

\* a drivers.csv in which the identifier of driver 1 occurs twice
WithDuplicateDriver(d) ==
    [d EXCEPT !.drivers.rows = Append(@, Driver(1, 1, 4, 1))]

\* the results files: rows 2 and 4, of drivers who did not win, with every
\* choice of the other rows; a file without rows; a file whose only row
\* does not resolve
ResultChoices ==
    {keep \cup {2, 4} : keep \in SUBSET (PoolIds \ {2, 4})} \cup {{}, {7}}

Disks ==
    {Dataset(keep, 0, FALSE) : keep \in ResultChoices}
    \cup {WithDuplicateDriver(FullDataset)}
    \cup {Dataset(PoolIds, MaxFill, shared) : shared \in BOOLEAN}
    \cup {Damage(FullDataset, f, how) : f \in Range(FileNames), how \in Damages}

(***************************************************************************)
(* pandas operations used by the loading code                              *)
(***************************************************************************)
\* frame[[...]] on one row
Select(row, cols) == [c \in cols |-> row[c]]

\* .rename(columns={old: new}) on one row
Rename(row, old, new) ==
    [c \in (DOMAIN row \ {old}) \cup {new} |-> IF c = new THEN row[old] ELSE row[c]]

\* a join that takes one left row for each key only
MergeFirstPerKey(left, right, key, sl, sr) ==
    Flatten([i \in 1..Len(left) |->
        LET m == IF \E k \in 1..(i - 1) : left[k][key] = left[i][key] THEN <<>>
                 ELSE SelectSeq(right, LAMBDA r : r[key] = left[i][key])
            shared == (DOMAIN left[i] \cap (IF m = <<>> THEN {} ELSE DOMAIN m[1])) \ {key}
            l == IF "nationality" \in shared
                 THEN Rename(left[i], "nationality", sl) ELSE left[i]
        IN  [j \in 1..Len(m) |->
                l @@ (IF "nationality" \in shared
                      THEN Rename(m[j], "nationality", sr) ELSE m[j])]])

\* left.merge(right, on=key, how='left'): a left row without a match is
\* kept, with NaN in the columns of the right table
MergeLeft(left, right, key, sl, sr) ==
    Flatten([i \in 1..Len(left) |->
        LET found == SelectSeq(right, LAMBDA r : r[key] = left[i][key])
            m == IF found = <<>> /\ right # <<>>
                 THEN <<[c \in DOMAIN right[1] |->
                            IF c = key THEN left[i][key] ELSE NaN]>>
                 ELSE found
            shared == (DOMAIN left[i] \cap (IF m = <<>> THEN {} ELSE DOMAIN m[1])) \ {key}
            l == IF "nationality" \in shared
                 THEN Rename(left[i], "nationality", sl) ELSE left[i]
        IN  [j \in 1..Len(m) |->
                l @@ (IF "nationality" \in shared
                      THEN Rename(m[j], "nationality", sr) ELSE m[j])]])

\* left.merge(right, on=key): an inner join that keeps the order of the left
\* rows and, for one left row, the order of the matching right rows; a
\* column the two sides share is told apart by the suffixes
Merge(left, right, key, sl, sr) ==
    Flatten([i \in 1..Len(left) |->
        LET m == SelectSeq(right, LAMBDA r : r[key] = left[i][key])
            shared == (DOMAIN left[i] \cap (IF m = <<>> THEN {} ELSE DOMAIN m[1])) \ {key}
            l == IF "nationality" \in shared
                 THEN Rename(left[i], "nationality", sl) ELSE left[i]
        IN  [j \in 1..Len(m) |->
                l @@ (IF "nationality" \in shared
                      THEN Rename(m[j], "nationality", sr) ELSE m[j])]])

\* frame[[...]] and .rename(columns={old: new}) on every row
SelectAll(rows, cols) == [i \in 1..Len(rows) |-> Select(rows[i], cols)]
RenameAll(rows, old, new) == [i \in 1..Len(rows) |-> Rename(rows[i], old, new)]

\* a sum in which one NaN cell makes the total NaN
RECURSIVE SumWithNaN(_, _)
SumWithNaN(rows, col) ==
    IF rows = <<>> THEN 0
    ELSE LET rest == SumWithNaN(Tail(rows), col)
         IN  IF Head(rows)[col] = NaN \/ rest = NaN THEN NaN
             ELSE Head(rows)[col] + rest

\* Series.sum() of a column: NaN cells are skipped
RECURSIVE SumSkipNaN(_, _)
SumSkipNaN(rows, col) ==
    IF rows = <<>> THEN 0
    ELSE (IF Head(rows)[col] = NaN THEN 0 ELSE Head(rows)[col])
         + SumSkipNaN(Tail(rows), col)

\* frame.groupby([k1, k2])[val].sum().reset_index(): one row for each pair of
\* keys, in ascending order of k1 and then of k2
GroupSum2(rows, k1, k2, val) ==
    LET ks == Sorted({r[k1] : r \in Range(rows)})
    IN  Flatten([i \in 1..Len(ks) |->
            LET part == SelectSeq(rows, LAMBDA r : r[k1] = ks[i])
                ns == Sorted({r[k2] : r \in Range(part)})
            IN  [j \in 1..Len(ns) |->
                    [c \in {k1, k2, val} |->
                        IF c = k1 THEN ks[i]
                        ELSE IF c = k2 THEN ns[j]
                        ELSE SumSkipNaN(SelectSeq(part, LAMBDA r : r[k2] = ns[j]), val)]]])

\* Series.min() and Series.max(): NaN for an empty column
ColMin(rows, col) == IF rows = <<>> THEN NaN ELSE Min({r[col] : r \in Range(rows)})
ColMax(rows, col) == IF rows = <<>> THEN NaN ELSE Max({r[col] : r \in Range(rows)})

(***************************************************************************)
(* Data loading and preparation, lines 16-76                               *)
(***************************************************************************)
Crashed == 0          \* an exception left the module: the process is gone
Serving == 893        \* app.run: callbacks are dispatched

\* the exception pd.read_csv raises for a file in this condition
ReadError(status) ==
    CASE status = "missing" -> "FileNotFoundError"
      [] status = "denied"  -> "PermissionError"
      [] status = "garbled" -> "ParserError"
      [] OTHER              -> "none"

\* lines 17-21: the i-th pd.read_csv
ReadCsv(i) ==
    /\ pc = 16 + i
    /\ i \in 1..Len(FileNames)
    /\ LET f == disk[FileNames[i]]
           fr == [cols |-> f.cols, rows |-> f.rows]
       IN  IF ReadError(f.status) # "none"
           THEN /\ exc' = ReadError(f.status)
                /\ pc' = 62
                /\ UNCHANGED loaded
           ELSE /\ exc' = exc
                /\ pc' = IF i = Len(FileNames) THEN 23 ELSE pc + 1
                /\ races' = IF i = 1 THEN fr ELSE races
                /\ results' = IF i = 2 THEN fr ELSE results
                /\ drivers' = IF i = 3 THEN fr ELSE drivers
                /\ constructors' = IF i = 4 THEN fr ELSE constructors
                /\ circuits' = IF i = 5 THEN fr ELSE circuits
    /\ UNCHANGED <<disk, sort_stable, views, slider, out, frame, earlier>>

\* the columns lines 23-45 take from each frame; a missing one is a KeyError
ColumnsPresent ==
    /\ {"forename", "surname", "driverId", "nationality"} \subseteq drivers.cols
    /\ {"raceId", "year", "name", "circuitId"} \subseteq races.cols
    /\ {"raceId", "driverId", "constructorId", "position", "points", "grid"}
           \subseteq results.cols
    /\ {"constructorId", "name", "nationality"} \subseteq constructors.cols
    /\ {"circuitId", "name", "country"} \subseteq circuits.cols

\* line 23
WithDriverName(rows) ==
    [i \in 1..Len(rows) |->
        rows[i] @@ [driver_name |-> DriverName(rows[i].forename, rows[i].surname)]]

\* lines 25-41, for the rows res of the results table
MergedRowsOf(res) ==
    LET m1 == Merge(res,
                    RenameAll(SelectAll(races.rows,
                                        {"raceId", "year", "name", "circuitId"}),
                              "name", "name_race"),
                    "raceId", "_x", "_y")
        m2 == Merge(m1,
                    SelectAll(WithDriverName(drivers.rows),
                              {"driverId", "driver_name", "nationality"}),
                    "driverId", "_x", "_y")
        m3 == Merge(m2,
                    RenameAll(SelectAll(constructors.rows,
                                        {"constructorId", "name", "nationality"}),
                              "name", "name_constructor"),
                    "constructorId", "nationality_driver", "nationality_constructor")
    IN  Merge(m3,
              RenameAll(SelectAll(circuits.rows, {"circuitId", "name", "country"}),
                        "name", "name_circuit"),
              "circuitId", "_x", "_y")

MergedRows == MergedRowsOf(results.rows)

\* the columns the four merges add to those of results
JoinedCols ==
    {"year", "name_race", "circuitId", "driver_name", "nationality_driver",
     "name_constructor", "nationality_constructor", "name_circuit", "country"}

DfCols == results.cols \cup JoinedCols

\* lines 43-45
Coerced(rows) ==
    [i \in 1..Len(rows) |->
        [rows[i] EXCEPT !["position"] = ToNumeric(@), !["points"] = ToNumeric(@),
                        !["grid"] = ToNumeric(@)]]

\* lines 48-50: the rows of the three derived views
IsWinner(r) == r.position = 1

IsPodiumNotFirst(r) == r.position \in {2, 3}

IsPodium(r) == r.position \in {1, 2, 3}

IsPoleByPosition(r) == r.position = 1

IsPole(r) == r.grid = 1

\* lines 23-60: the merges, the coercion and the derived views
Prepare ==
    /\ pc = 23
    /\ IF ~ColumnsPresent
       THEN /\ exc' = "KeyError"
            /\ pc' = 62
            /\ UNCHANGED views
       ELSE LET rows == Coerced(MergedRows)
            IN  /\ df' = [cols |-> DfCols, rows |-> rows]
                /\ winners' = [cols |-> DfCols,
                               rows |-> SelectSeq(rows, IsWinner)]
                /\ podiums' = [cols |-> DfCols,
                               rows |-> SelectSeq(rows, IsPodium)]
                /\ poles' = [cols |-> DfCols,
                             rows |-> SelectSeq(rows, IsPole)]
                /\ constructor_points' =
                       [cols |-> {"year", "name_constructor", "points"},
                        rows |-> GroupSum2(rows, "year", "name_constructor", "points")]
                /\ driver_points' =
                       [cols |-> {"year", "driver_name", "points"},
                        rows |-> GroupSum2(rows, "year", "driver_name", "points")]
                /\ min_year' = ColMin(rows, "year")
                /\ max_year' = ColMax(rows, "year")
                /\ all_drivers' = Sorted({r.driver_name : r \in Range(rows)})
                /\ all_constructors' = Sorted({r.name_constructor : r \in Range(rows)})
                /\ all_circuits' = Sorted({r.name_circuit : r \in Range(rows)})
                /\ exc' = exc
                /\ pc' = 108
    /\ UNCHANGED <<disk, sort_stable, loaded, slider, out, frame, earlier>>

\* line 62: the exceptions the except clause takes
CatchesNothing(e) == FALSE

Catches(e) == e = "FileNotFoundError"

EmptyFrame(cols) == [cols |-> cols, rows |-> <<>>]

\* line 75
DefaultYears == <<1950, 2024>>

\* lines 62-76: the fallback data set, or the exception leaves the module
Except ==
    /\ pc = 62
    /\ IF Catches(exc)
       THEN /\ df' = EmptyFrame({"year", "driver_name", "name_constructor", "points",
                                 "position", "name_race", "country", "driverId",
                                 "constructorId", "name_circuit", "nationality_driver",
                                 "nationality_constructor", "grid"})
            /\ winners' = EmptyFrame({"year", "driver_name", "name_constructor",
                                      "nationality_driver", "nationality_constructor",
                                      "name_circuit", "grid"})
            /\ podiums' = EmptyFrame({"year", "driver_name", "name_constructor",
                                      "position"})
            /\ poles' = EmptyFrame({"year", "driver_name", "name_constructor",
                                    "name_circuit", "grid"})
            /\ constructor_points' = EmptyFrame({"year", "name_constructor", "points"})
            /\ driver_points' = EmptyFrame({"year", "driver_name", "points"})
            /\ min_year' = DefaultYears[1]
            /\ max_year' = DefaultYears[2]
            /\ all_drivers' = <<>>
            /\ all_constructors' = <<>>
            /\ all_circuits' = <<>>
            /\ pc' = 108
       ELSE /\ pc' = Crashed
            /\ UNCHANGED views
    /\ UNCHANGED <<disk, sort_stable, exc, loaded, slider, out, frame, earlier>>

\* lines 108-512, of which the model keeps the year slider (137-145): the
\* marks are range(min_year, max_year + 1, 5), a TypeError when the fact
\* table has no rows and min_year is NaN
Layout ==
    /\ pc = 108
    /\ IF min_year = NaN
       THEN /\ exc' = "TypeError"
            /\ pc' = Crashed
            /\ UNCHANGED slider
       ELSE /\ slider' = [min |-> min_year, max |-> max_year,
                          value |-> <<max_year - 20, max_year>>]
            /\ exc' = exc
            /\ pc' = Serving
    /\ UNCHANGED <<disk, sort_stable, loaded, views, out, frame, earlier>>

Init ==
    /\ disk \in Disks
    /\ sort_stable \in BOOLEAN
    /\ pc = 17
    /\ exc = "none"
    /\ races = NoFrame /\ results = NoFrame /\ drivers = NoFrame
    /\ constructors = NoFrame /\ circuits = NoFrame
    /\ df = NoFrame /\ winners = NoFrame /\ podiums = NoFrame /\ poles = NoFrame
    /\ driver_points = NoFrame /\ constructor_points = NoFrame
    /\ min_year = NaN /\ max_year = NaN
    /\ all_drivers = <<>> /\ all_constructors = <<>> /\ all_circuits = <<>>
    /\ slider = NoSlider
    /\ out = None
    /\ frame = None
    /\ earlier = None

(***************************************************************************)
(* pandas and plotly operations used by the callbacks                      *)
(***************************************************************************)
\* a mask that leaves the last year of the range out
YearMaskExclusive(r, year_range) == year_range[1] <= r.year /\ r.year < year_range[2]

\* a mask that keeps the years outside the range
YearMaskOutside(r, year_range) == r.year < year_range[1] \/ year_range[2] < r.year

\* the boolean mask (t['year'] >= year_range[0]) & (t['year'] <= year_range[1])
YearMask(r, year_range) == year_range[1] <= r.year /\ r.year <= year_range[2]

ByYear(rows, year_range) == SelectSeq(rows, LAMBDA r : YearMask(r, year_range))

\* a dropdown value: None, or the chosen items (none chosen: [] or '')
Unset == [none |-> TRUE, items |-> {}]
Chosen(S) == [none |-> FALSE, items |-> S]

\* Python's `not selected`
NotSelectedNoneOnly(selected) == selected.none

NotSelected(selected) == selected.none \/ selected.items = {}

\* t[col].isin(selected), and t[col] == selected for the one-valued dropdown
IsIn(r, col, selected) == r[col] \in selected.items

GroupKeys(rows, key) == Sorted({r[key] : r \in Range(rows)})

\* a grouping that counts the rows of a key, not its distinct values
GroupRowCount(rows, key, val) ==
    LET ks == GroupKeys(rows, key)
    IN  [i \in 1..Len(ks) |->
            [c \in {key, val} |->
                IF c = key THEN ks[i]
                ELSE Len(SelectSeq(rows, LAMBDA r : r[key] = ks[i]))]]

\* t.groupby(key)[val].nunique().reset_index(): one row for each key in
\* ascending order of the key, val holding the number of distinct values
GroupNunique(rows, key, val) ==
    LET ks == GroupKeys(rows, key)
    IN  [i \in 1..Len(ks) |->
            [c \in {key, val} |->
                IF c = key THEN ks[i]
                ELSE Cardinality({r[val] : r \in {x \in Range(rows) : x[key] = ks[i]}})]]

\* t.groupby(key)[val].count().reset_index(): the number of rows of the key
\* whose val is not NaN
GroupCount(rows, key, val) ==
    LET ks == GroupKeys(rows, key)
    IN  [i \in 1..Len(ks) |->
            [c \in {key, val} |->
                IF c = key THEN ks[i]
                ELSE Len(SelectSeq(rows, LAMBDA r : r[key] = ks[i] /\ r[val] # NaN))]]

\* t.groupby([k1, k2])[val].count().reset_index()
GroupCount2(rows, k1, k2, val) ==
    LET ks == GroupKeys(rows, k1)
    IN  Flatten([i \in 1..Len(ks) |->
            LET part == SelectSeq(rows, LAMBDA r : r[k1] = ks[i])
                ns == GroupKeys(part, k2)
            IN  [j \in 1..Len(ns) |->
                    [c \in {k1, k2, val} |->
                        IF c = k1 THEN ks[i]
                        ELSE IF c = k2 THEN ns[j]
                        ELSE Len(SelectSeq(part, LAMBDA r : r[k2] = ns[j] /\ r[val] # NaN))]]])

Without(rows, k) == SubSeq(rows, 1, k - 1) \o SubSeq(rows, k + 1, Len(rows))

\* t.head(n): the first n rows, whatever their values
NLargestHead(rows, n, col) == SubSeq(rows, 1, Min({n, Len(rows)}))

\* t.nlargest(n, col, keep='last'): of rows with equal values the last first
RECURSIVE NLargestKeepLast(_, _, _)
NLargestKeepLast(rows, n, col) ==
    IF n = 0 \/ rows = <<>> THEN <<>>
    ELSE LET m == Max({rows[i][col] : i \in 1..Len(rows)})
             k == Max({i \in 1..Len(rows) : rows[i][col] = m})
         IN  <<rows[k]>> \o NLargestKeepLast(Without(rows, k), n - 1, col)

\* t.nsmallest(n, col)
RECURSIVE NSmallest(_, _, _)
NSmallest(rows, n, col) ==
    IF n = 0 \/ rows = <<>> THEN <<>>
    ELSE LET m == Min({rows[i][col] : i \in 1..Len(rows)})
             k == Min({i \in 1..Len(rows) : rows[i][col] = m})
         IN  <<rows[k]>> \o NSmallest(Without(rows, k), n - 1, col)

\* t.nlargest(n, col): the n rows with the largest values in descending
\* order, rows with equal values in their order in t (keep='first')
RECURSIVE NLargest(_, _, _)
NLargest(rows, n, col) ==
    IF n = 0 \/ rows = <<>> THEN <<>>
    ELSE LET m == Max({rows[i][col] : i \in 1..Len(rows)})
             k == Min({i \in 1..Len(rows) : rows[i][col] = m})
         IN  <<rows[k]>> \o NLargest(Without(rows, k), n - 1, col)

\* t.sort_values(col, ascending=False)
RECURSIVE SortValuesDescending(_, _)
SortValuesDescending(rows, col) ==
    IF rows = <<>> THEN <<>>
    ELSE LET m == Max({rows[i][col] : i \in 1..Len(rows)})
             k == Min({i \in 1..Len(rows) : rows[i][col] = m})
         IN  <<rows[k]>> \o SortValuesDescending(Without(rows, k), col)

\* t.sort_values(col, ascending=True) with the default kind='quicksort',
\* which does not promise the order of rows with equal values: a build
\* either keeps them in their order in t or, here, turns them round
RECURSIVE SortValues(_, _)
SortValues(rows, col) ==
    IF rows = <<>> THEN <<>>
    ELSE LET m == Min({rows[i][col] : i \in 1..Len(rows)})
             ties == {i \in 1..Len(rows) : rows[i][col] = m}
             k == IF sort_stable THEN Min(ties) ELSE Max(ties)
         IN  <<rows[k]>> \o SortValues(Without(rows, k), col)

\* a running total of val over all rows, whatever their partition
CumSumUnpartitioned(rows, part, val) ==
    [i \in 1..Len(rows) |->
        rows[i] @@ [cumulative_wins |-> SumSkipNaN(SubSeq(rows, 1, i), val)]]

\* t['cumulative_wins'] = t.groupby(part)[val].cumsum(): the running total
\* of val over the rows of the same partition, in the order of the table
CumSum(rows, part, val) ==
    [i \in 1..Len(rows) |->
        rows[i] @@ [cumulative_wins |->
            SumSkipNaN(SelectSeq(SubSeq(rows, 1, i),
                                 LAMBDA r : r[part] = rows[i][part]), val)]]

\* f"{n:,}": the decimal digits in groups of three, as the list of groups
RECURSIVE FormatThousands(_)
FormatThousands(n) ==
    IF n < 1000 THEN <<n>> ELSE FormatThousands(n \div 1000) \o <<n % 1000>>

\* lines 519-539
create_empty_figure(message) == [kind |-> "empty", message |-> message, rows |-> <<>>]

\* px.bar, px.line and px.pie keep the table they are given
Bar(rows, x, y) == [kind |-> "bar", message |-> "", rows |-> rows, x |-> x, y |-> y]
Line(rows, x, y) == [kind |-> "line", message |-> "", rows |-> rows, x |-> x, y |-> y]
Pie(rows, names, values) ==
    [kind |-> "pie", message |-> "", rows |-> rows, x |-> names, y |-> values]

\* the sizes of the rankings: nlargest(15, ...) and nlargest(10, ...)
TopOverview == 15
TopCircuit == 10

(***************************************************************************)
(* Callbacks, lines 541-887                                                *)
(***************************************************************************)
\* the slider values a request carries: the handles at any two seasons, or
\* the initial value of the layout
Years == {2000 + i : i \in 1..SliderSteps}
YearRanges == (Years \X Years) \cup {slider.value}

DriverSelections == {Unset, Chosen({}), Chosen({101}), Chosen({101, 102})}
ConstructorSelections == {Unset, Chosen({}), Chosen({2}), Chosen({1, 2})}
CircuitSelections == {Unset, Chosen({}), Chosen({1}), Chosen({2})}

\* a column read at a line of a callback; reading a column the frame does
\* not have is a KeyError
Access(line, fr, col) == [line |-> line, has |-> col \in fr.cols]

FirstMissing(acc) ==
    IF \A i \in 1..Len(acc) : acc[i].has THEN 0
    ELSE Min({i \in 1..Len(acc) : ~acc[i].has})

Raised(cb, year_range, selected, line) ==
    [cb |-> cb, year_range |-> year_range, selected |-> selected,
     status |-> "raised", exc |-> "KeyError", line |-> line, value |-> None]

Returned(cb, year_range, selected, line, value) ==
    [cb |-> cb, year_range |-> year_range, selected |-> selected,
     status |-> "returned", exc |-> "none", line |-> line, value |-> value]

\* the table the constructors KPI counts, line 578
KpiConstructorsFiltered(dff) == dff

KpiConstructorsTable(dff) == df.rows

OverviewAccesses ==
    <<Access(570, df, "year"), Access(571, winners, "year"),
      Access(572, podiums, "year"), Access(573, poles, "year"),
      Access(576, df, "raceId"), Access(577, df, "driverId"),
      Access(578, df, "constructorId"),
      Access(585, df, "year"), Access(585, df, "raceId"),
      Access(591, df, "country"), Access(591, df, "raceId"),
      Access(597, winners, "nationality_constructor"), Access(597, winners, "raceId"),
      Access(610, winners, "nationality_driver"), Access(610, winners, "raceId"),
      Access(622, poles, "driver_name"), Access(622, poles, "raceId"),
      Access(628, poles, "name_constructor"), Access(628, poles, "raceId"),
      Access(634, winners, "driver_name"), Access(634, winners, "raceId"),
      Access(640, podiums, "driver_name"), Access(640, podiums, "raceId"),
      Access(646, winners, "name_constructor"), Access(646, winners, "raceId"),
      Access(652, podiums, "name_constructor"), Access(652, podiums, "raceId"),
      Access(658, df, "name_circuit"), Access(658, df, "raceId")>>

\* lines 592-659: a ranking is sorted ascending for the horizontal bars, whose
\* first row is drawn at the bottom
TopBar(top, val, key) == Bar(SortValues(top, val), val, key)

\* lines 591-658: the nlargest(15, ...) tables of the overview
OverviewTops(dff, winners_dff, podiums_dff, poles_dff) ==
    [races_country |->
         NLargest(GroupNunique(dff, "country", "raceId"), TopOverview, "raceId"),
     driver_nat |->
         NLargest(RenameAll(GroupCount(winners_dff, "nationality_driver", "raceId"),
                            "raceId", "wins"),
                  TopOverview, "wins"),
     driver_poles |->
         NLargest(GroupCount(poles_dff, "driver_name", "raceId"), TopOverview, "raceId"),
     constructor_poles |->
         NLargest(GroupCount(poles_dff, "name_constructor", "raceId"), TopOverview, "raceId"),
     driver_wins |->
         NLargest(GroupCount(winners_dff, "driver_name", "raceId"), TopOverview, "raceId"),
     driver_podiums |->
         NLargest(GroupCount(podiums_dff, "driver_name", "raceId"), TopOverview, "raceId"),
     constructor_wins |->
         NLargest(GroupCount(winners_dff, "name_constructor", "raceId"), TopOverview, "raceId"),
     constructor_podiums |->
         NLargest(GroupCount(podiums_dff, "name_constructor", "raceId"), TopOverview, "raceId"),
     top_circuits |->
         NLargest(GroupNunique(dff, "name_circuit", "raceId"), TopOverview, "raceId")]

\* lines 584-661
OverviewFigures(dff, winners_dff, tops) ==
    [races_season |-> Bar(GroupNunique(dff, "year", "raceId"), "year", "raceId"),
     races_country |-> TopBar(tops.races_country, "raceId", "country"),
     constructor_nat |->
         Pie(RenameAll(GroupCount(winners_dff, "nationality_constructor", "raceId"),
                       "raceId", "wins"),
             "nationality_constructor", "wins"),
     driver_nat |-> TopBar(tops.driver_nat, "wins", "nationality_driver"),
     driver_poles |-> TopBar(tops.driver_poles, "raceId", "driver_name"),
     constructor_poles |-> TopBar(tops.constructor_poles, "raceId", "name_constructor"),
     driver_wins |-> TopBar(tops.driver_wins, "raceId", "driver_name"),
     driver_podiums |-> TopBar(tops.driver_podiums, "raceId", "driver_name"),
     constructor_wins |-> TopBar(tops.constructor_wins, "raceId", "name_constructor"),
     constructor_podiums |-> TopBar(tops.constructor_podiums, "raceId", "name_constructor"),
     top_circuits |-> TopBar(tops.top_circuits, "raceId", "name_circuit")]

\* a callback that assigned its filtered table to the module-level name
GlobalRebound(global, local) == [global EXCEPT !.rows = local]

\* a callback that emptied the module-level table
GlobalCleared(global, local) == [global EXCEPT !.rows = <<>>]

\* lines 570-573: `dff = df[...]` builds a new table and binds it to a name
\* local to the callback; the module-level table is what it was
GlobalAfter(global, local) == global

\* lines 568-673
update_overview_graphs(year_range) ==
    /\ pc = Serving
    /\ out = None
    /\ LET acc == OverviewAccesses
           k == FirstMissing(acc)
           dff == ByYear(df.rows, year_range)
           winners_dff == ByYear(winners.rows, year_range)
           podiums_dff == ByYear(podiums.rows, year_range)
           poles_dff == ByYear(poles.rows, year_range)
           tops == IF k # 0 THEN None
                   ELSE OverviewTops(dff, winners_dff, podiums_dff, poles_dff)
       IN  /\ frame' = IF k # 0 /\ acc[k].line <= 573 THEN None
                       ELSE [cb |-> "update_overview_graphs", dff |-> dff,
                             winners_dff |-> winners_dff,
                             podiums_dff |-> podiums_dff, poles_dff |-> poles_dff,
                             tops |-> tops]
           /\ out' = IF k # 0
                     THEN Raised("update_overview_graphs", year_range, Unset, acc[k].line)
                     ELSE Returned("update_overview_graphs", year_range, Unset, 665,
                            [kpi_races |->
                                 FormatThousands(Cardinality({r.raceId : r \in Range(dff)})),
                             kpi_drivers |->
                                 FormatThousands(Cardinality({r.driverId : r \in Range(dff)})),
                             kpi_constructors |->
                                 FormatThousands(Cardinality(
                                     {r.constructorId : r \in Range(KpiConstructorsTable(dff))})),
                             year_range_text |-> year_range,
                             figs |-> OverviewFigures(dff, winners_dff, tops)])
           /\ df' = GlobalAfter(df, dff)
           /\ winners' = GlobalAfter(winners, winners_dff)
           /\ podiums' = GlobalAfter(podiums, podiums_dff)
           /\ poles' = GlobalAfter(poles, poles_dff)
    /\ UNCHANGED <<disk, sort_stable, pc, exc, loaded, slider, driver_points, constructor_points,
                   min_year, max_year, all_drivers, all_constructors, all_circuits,
                   earlier>>

\* lines 695-703 and 753-761: wins per year and partition, then the running
\* total of each partition
CumulativeWinsChart(dff, part) ==
    Line(CumSum(RenameAll(GroupCount2(dff, "year", part, "raceId"), "raceId", "wins"),
                part, "wins"),
         "year", "cumulative_wins")

\* lines 811-813, 843-845 and 875-877: distinct races per key, nlargest(10)
CircuitTop(dff, key, val) ==
    NLargest(RenameAll(GroupNunique(dff, key, "raceId"), "raceId", val), TopCircuit, val)

\* lines 815-820, 847-852 and 879-884: ascending for the horizontal bars
CircuitChart(top, key, val) == Bar(SortValues(top, val), val, key)

\* the nlargest table of each per-circuit callback
TopOf(cb, dff) ==
    CASE cb = "update_circuit_winners_chart" -> CircuitTop(dff, "driver_name", "Wins")
      [] cb = "update_circuit_constructor_winners_chart"
             -> CircuitTop(dff, "name_constructor", "Wins")
      [] cb = "update_circuit_poles_chart" -> CircuitTop(dff, "driver_name", "Poles")
      [] OTHER -> <<>>

\* the chart each callback draws from its filtered table
ChartOf(cb, dff) ==
    CASE cb = "update_driver_line_chart" -> CumulativeWinsChart(dff, "driver_name")
      [] cb = "update_constructor_line_chart" -> CumulativeWinsChart(dff, "name_constructor")
      [] cb \in {"update_driver_points_chart", "update_constructor_points_chart"}
             -> Line(dff, "year", "points")
      [] cb = "update_circuit_winners_chart"
             -> CircuitChart(TopOf(cb, dff), "driver_name", "Wins")
      [] cb = "update_circuit_constructor_winners_chart"
             -> CircuitChart(TopOf(cb, dff), "name_constructor", "Wins")
      [] cb = "update_circuit_poles_chart"
             -> CircuitChart(TopOf(cb, dff), "driver_name", "Poles")

\* the common course of the seven callbacks with a dropdown: the guard on
\* the selection, the filter of table t by year and by the selection in
\* column col, the guard on an empty result, and the chart; L names the
\* lines of the guard, the filter, the second guard, the chart and the return
SelectionCallback(cb, year_range, selected, t, col, L, please, nothing, chart_cols) ==
    IF NotSelected(selected)
    THEN [out |-> Returned(cb, year_range, selected, L[1], create_empty_figure(please)),
          frame |-> None]
    ELSE IF ~({"year", col} \subseteq t.cols)
    THEN [out |-> Raised(cb, year_range, selected, L[2]), frame |-> None]
    ELSE LET dff == SelectSeq(t.rows, LAMBDA r : YearMask(r, year_range)
                                                  /\ IsIn(r, col, selected))
             locals == [cb |-> cb, dff |-> dff, top |-> <<>>]
         IN  IF dff = <<>>
             THEN [out |-> Returned(cb, year_range, selected, L[3],
                                    create_empty_figure(nothing)),
                   frame |-> locals]
             ELSE IF ~(chart_cols \subseteq t.cols)
             THEN [out |-> Raised(cb, year_range, selected, L[4]), frame |-> locals]
             ELSE [out |-> Returned(cb, year_range, selected, L[5], ChartOf(cb, dff)),
                   frame |-> [locals EXCEPT !.top = TopOf(cb, dff)]]

Dispatch(result) ==
    /\ pc = Serving
    /\ out = None
    /\ out' = result.out
    /\ frame' = result.frame
    /\ UNCHANGED <<disk, sort_stable, pc, exc, loaded, views, slider, earlier>>

\* lines 682-705
update_driver_line_chart(year_range, selected_drivers) ==
    Dispatch(SelectionCallback("update_driver_line_chart", year_range, selected_drivers,
        winners, "driver_name", <<684, 686, 693, 695, 705>>,
        "Please select a driver from the dropdown.",
        "No wins for selected driver(s) in this period.",
        {"year", "driver_name", "raceId"}))

\* lines 712-731
update_driver_points_chart(year_range, selected_drivers) ==
    Dispatch(SelectionCallback("update_driver_points_chart", year_range, selected_drivers,
        driver_points, "driver_name", <<714, 716, 723, 725, 731>>,
        "Please select a driver from the dropdown.",
        "No points for selected driver(s) in this period.",
        {"year", "points", "driver_name"}))

\* lines 740-763
update_constructor_line_chart(year_range, selected_constructors) ==
    Dispatch(SelectionCallback("update_constructor_line_chart", year_range,
        selected_constructors,
        winners, "name_constructor", <<742, 744, 751, 753, 763>>,
        "Please select a constructor from the dropdown.",
        "No wins for selected constructor(s) in this period.",
        {"year", "name_constructor", "raceId"}))

\* lines 770-789
update_constructor_points_chart(year_range, selected_constructors) ==
    Dispatch(SelectionCallback("update_constructor_points_chart", year_range,
        selected_constructors,
        constructor_points, "name_constructor", <<772, 774, 781, 783, 789>>,
        "Please select a constructor from the dropdown.",
        "No points for selected constructor(s) in this period.",
        {"year", "points", "name_constructor"}))

\* lines 798-823
update_circuit_winners_chart(year_range, selected_circuit) ==
    Dispatch(SelectionCallback("update_circuit_winners_chart", year_range,
        selected_circuit,
        winners, "name_circuit", <<800, 802, 809, 811, 823>>,
        "Please select a circuit from the dropdown.",
        "No winners at this circuit in this period.",
        {"driver_name", "raceId"}))

\* lines 830-855
update_circuit_constructor_winners_chart(year_range, selected_circuit) ==
    Dispatch(SelectionCallback("update_circuit_constructor_winners_chart", year_range,
        selected_circuit,
        winners, "name_circuit", <<832, 834, 841, 843, 855>>,
        "Please select a circuit from the dropdown.",
        "No winners at this circuit in this period.",
        {"name_constructor", "raceId"}))

\* lines 862-887
update_circuit_poles_chart(year_range, selected_circuit) ==
    Dispatch(SelectionCallback("update_circuit_poles_chart", year_range,
        selected_circuit,
        poles, "name_circuit", <<864, 866, 873, 875, 887>>,
        "Please select a circuit from the dropdown.",
        "No pole positions at this circuit in this period.",
        {"driver_name", "raceId"}))

\* the response is sent to the browser; the server keeps nothing of it
Respond ==
    /\ pc = Serving
    /\ out # None
    /\ out' = None
    /\ frame' = None
    /\ UNCHANGED <<disk, sort_stable, pc, exc, loaded, views, slider, earlier>>

Next ==
    \/ \E i \in 1..Len(FileNames) : ReadCsv(i)
    \/ Prepare
    \/ Except
    \/ Layout
    \/ \E year_range \in YearRanges : update_overview_graphs(year_range)
    \/ \E year_range \in YearRanges, selected_drivers \in DriverSelections :
           update_driver_line_chart(year_range, selected_drivers)
    \/ \E year_range \in YearRanges, selected_drivers \in DriverSelections :
           update_driver_points_chart(year_range, selected_drivers)
    \/ \E year_range \in YearRanges, selected_constructors \in ConstructorSelections :
           update_constructor_line_chart(year_range, selected_constructors)
    \/ \E year_range \in YearRanges, selected_constructors \in ConstructorSelections :
           update_constructor_points_chart(year_range, selected_constructors)
    \/ \E year_range \in YearRanges, selected_circuit \in CircuitSelections :
           update_circuit_winners_chart(year_range, selected_circuit)
    \/ \E year_range \in YearRanges, selected_circuit \in CircuitSelections :
           update_circuit_constructor_winners_chart(year_range, selected_circuit)
    \/ \E year_range \in YearRanges, selected_circuit \in CircuitSelections :
           update_circuit_poles_chart(year_range, selected_circuit)
    \/ Respond

Spec == Init /\ [][Next]_vars

(***************************************************************************)
(* Several browser sessions.  The server keeps no session: a callback      *)
(* invocation carries only its arguments (lines 542-567 and the decorators *)
(* of the other callbacks declare Input values, no State and no Store), so *)
(* sessions differ only in the order in which their invocations arrive.    *)
(* One session leaves the slider at its initial value; a response it       *)
(* receives is kept in `earlier` and compared with the responses that any  *)
(* session receives afterwards, among the invocations of the sessions that *)
(* move the slider.                                                        *)
(***************************************************************************)
SessionDisks == {FullDataset, Damage(FullDataset, "circuits", "missing")}

InitSessions == Init /\ disk \in SessionDisks

\* the response goes to the browser of the session with the untouched
\* slider, which keeps it
RespondToSession ==
    /\ pc = Serving
    /\ out # None
    /\ out.year_range = slider.value
    /\ earlier = None
    /\ earlier' = out
    /\ out' = None
    /\ frame' = None
    /\ UNCHANGED <<disk, sort_stable, pc, exc, loaded, views, slider>>

NextSessions ==
    \/ Next
    \/ RespondToSession

SpecSessions == InitSessions /\ [][NextSessions]_vars

(***************************************************************************)
(* Properties                                                              *)
(***************************************************************************)
LoaderDone == pc \in {108, Serving, Crashed}
MissingFile == \E i \in 1..Len(FileNames) : disk[FileNames[i]].status = "missing"
UnreadableFile ==
    \E i \in 1..Len(FileNames) :
        \/ disk[FileNames[i]].status \in {"denied", "garbled"}
        \/ KeyColumn[FileNames[i]] \notin disk[FileNames[i]].cols
Overview == "update_overview_graphs"
Responded == pc = Serving /\ out # None
NoSelection == out.selected.none \/ out.selected.items = {}

\* the empty-dataset state with the default year range
EmptyDataset ==
    /\ df.rows = <<>> /\ winners.rows = <<>> /\ podiums.rows = <<>>
    /\ poles.rows = <<>> /\ driver_points.rows = <<>>
    /\ constructor_points.rows = <<>>
    /\ <<min_year, max_year>> = <<1950, 2024>>
    /\ all_drivers = <<>> /\ all_constructors = <<>> /\ all_circuits = <<>>

\* C1 (as claimed): after a missing input file every callback, for every year
\* range, returns its outputs and raises nothing.
C1_FallbackCallbacksReturn ==
    (Responded /\ MissingFile) => out.status = "returned"

\* C2: when one of the five files is missing, whichever it is, loading ends
\* with no exception leaving the module, with zero rows in df, winners,
\* podiums, poles, driver_points and constructor_points, with
\* (min_year, max_year) = (1950, 2024) and with the three option lists empty.
C2_MissingFileFallback ==
    MissingFile =>
        /\ pc # Crashed
        /\ pc = 62 => exc = "FileNotFoundError"
        /\ LoaderDone => EmptyDataset

\* the last file read is the missing one and the four before it were read
C2_Witness ==
    /\ disk.circuits.status = "missing"
    /\ pc = Serving
    /\ races.rows # <<>> /\ results.rows # <<>> /\ constructors.rows # <<>>
    /\ EmptyDataset

\* C3 (as claimed): a file that is present but cannot be parsed, cannot be
\* opened or lacks a join column leaves the loader in the same empty-dataset
\* state, and no exception leaves the loading step.
C3_UnreadableFileFallback ==
    (UnreadableFile /\ pc \notin 17..23) =>
        /\ pc # Crashed
        /\ LoaderDone => EmptyDataset

InRange(rows, year_range) ==
    {r \in Range(rows) : year_range[1] <= r.year /\ r.year <= year_range[2]}

\* C4: the constructors KPI is the number of distinct constructor ids of the
\* whole fact table, whatever the year range; the races and drivers KPIs are
\* the numbers of distinct race and driver ids of the fact rows in the range.
C4_KpiScopes ==
    (Responded /\ out.cb = Overview /\ out.status = "returned") =>
        /\ out.value.kpi_constructors =
               <<Cardinality({r.constructorId : r \in Range(df.rows)})>>
        /\ out.value.kpi_races =
               <<Cardinality({r.raceId : r \in InRange(df.rows, out.year_range)})>>
        /\ out.value.kpi_drivers =
               <<Cardinality({r.driverId : r \in InRange(df.rows, out.year_range)})>>

\* a range that leaves a constructor and a race of the fact table out
C4_Witness ==
    /\ Responded /\ out.cb = Overview /\ out.status = "returned"
    /\ out.value.kpi_constructors = <<2>>
    /\ Cardinality({r.constructorId : r \in InRange(df.rows, out.year_range)}) = 1
    /\ Cardinality({r.raceId : r \in Range(df.rows)}) > out.value.kpi_races[1]
    /\ out.value.kpi_races[1] > 0

\* the table a callback with a dropdown filters and the column it matches
CallbackTable(cb) ==
    CASE cb \in {"update_driver_line_chart", "update_constructor_line_chart",
                 "update_circuit_winners_chart",
                 "update_circuit_constructor_winners_chart"} -> winners
      [] cb = "update_driver_points_chart" -> driver_points
      [] cb = "update_constructor_points_chart" -> constructor_points
      [] OTHER -> poles
CallbackColumn(cb) ==
    CASE cb \in {"update_driver_line_chart", "update_driver_points_chart"} -> "driver_name"
      [] cb \in {"update_constructor_line_chart", "update_constructor_points_chart"}
             -> "name_constructor"
      [] OTHER -> "name_circuit"

\* s holds each element of S once and nothing else
ExactlyRows(s, S) == Range(s) = S /\ Len(s) = Cardinality(S)

\* C5: in every callback the year filter keeps exactly the rows with
\* year_range[0] <= year <= year_range[1]; when year_range[0] > year_range[1]
\* the filtered table has no rows, the filter raises nothing, and on a loaded
\* data set the callback returns.
C5_YearFilterInclusive ==
    (Responded /\ (out.cb = Overview \/ ~NoSelection)) =>
        /\ frame # None
        /\ IF out.cb = Overview
           THEN /\ ExactlyRows(frame.dff, InRange(df.rows, out.year_range))
                /\ ExactlyRows(frame.winners_dff, InRange(winners.rows, out.year_range))
                /\ ExactlyRows(frame.podiums_dff, InRange(podiums.rows, out.year_range))
                /\ ExactlyRows(frame.poles_dff, InRange(poles.rows, out.year_range))
           ELSE ExactlyRows(frame.dff,
                    {r \in InRange(CallbackTable(out.cb).rows, out.year_range) :
                        r[CallbackColumn(out.cb)] \in out.selected.items})
        /\ out.year_range[1] > out.year_range[2] =>
               /\ frame.dff = <<>>
               /\ out.cb = Overview =>
                      /\ frame.winners_dff = <<>>
                      /\ frame.podiums_dff = <<>>
                      /\ frame.poles_dff = <<>>
               /\ exc = "none" => out.status = "returned"

\* rows of the first and of the last season of the range are both kept
C5_Witness ==
    /\ Responded /\ out.cb = "update_driver_line_chart" /\ frame # None
    /\ out.year_range[1] < out.year_range[2]
    /\ \E r \in Range(frame.dff) : r.year = out.year_range[1]
    /\ \E r \in Range(frame.dff) : r.year = out.year_range[2]
    /\ Len(frame.dff) < Len(winners.rows)

PleaseSelect ==
    {"Please select a driver from the dropdown.",
     "Please select a constructor from the dropdown.",
     "Please select a circuit from the dropdown."}

\* C6: in each of the seven callbacks with a dropdown an empty or unset
\* selection returns the 'Please select ...' placeholder before any table is
\* filtered, for every year range and every data set.
C6_NoSelectionPlaceholder ==
    (Responded /\ out.cb # Overview /\ NoSelection) =>
        /\ out.status = "returned"
        /\ out.value.kind = "empty"
        /\ out.value.message \in PleaseSelect
        /\ frame = None

\* an empty list, not None, on a loaded data set whose filter would keep rows
C6_Witness ==
    /\ Responded /\ out.cb = "update_circuit_poles_chart"
    /\ ~out.selected.none /\ out.selected.items = {}
    /\ InRange(poles.rows, out.year_range) # {}
    /\ out.value.message = "Please select a circuit from the dropdown."

\* C7 (as claimed): whenever a filter leaves zero rows, the figure returned is
\* the placeholder of create_empty_figure, the eleven figures of
\* update_overview_graphs included.
C7_ZeroRowsPlaceholder ==
    (Responded /\ out.status = "returned" /\ frame # None /\ frame.dff = <<>>) =>
        IF out.cb = Overview
        THEN \A f \in DOMAIN out.value.figs : out.value.figs[f].kind = "empty"
        ELSE out.value.kind = "empty"

\* the groups of a table: the values of its key column
Groups(rows, key) == {r[key] : r \in Range(rows)}
\* the number of rows of a group, and the number of its distinct races
CountOf(rows, key, k) == Cardinality({i \in 1..Len(rows) : rows[i][key] = k})
RacesOf(rows, key, k) ==
    Cardinality({r.raceId : r \in {x \in Range(rows) : x[key] = k}})

Smaller(a, b) == IF a < b THEN a ELSE b

\* the figure ranks the groups of a table: at most n rows, min(n, groups) of
\* them, one for each group shown, each with the aggregate of its group, and
\* no group left out has a larger aggregate than a group shown
Ranked(fig, groups, key, val, n, Agg(_)) ==
    LET shown == {r[key] : r \in Range(fig.rows)}
    IN  /\ Len(fig.rows) <= n
        /\ Len(fig.rows) = Smaller(n, Cardinality(groups))
        /\ Cardinality(shown) = Len(fig.rows)
        /\ shown \subseteq groups
        /\ \A r \in Range(fig.rows) :
               /\ r[val] = Agg(r[key])
               /\ \A k \in groups \ shown : r[val] >= Agg(k)

\* C8: every top-N chart (N = 15 in update_overview_graphs, N = 10 in the
\* three per-circuit charts) has at most N rows, exactly min(N, number of
\* groups) rows, and no group it leaves out has a larger aggregate than a
\* group it contains.
C8_TopN ==
    (Responded /\ out.status = "returned" /\ frame # None) =>
        IF out.cb = Overview
        THEN LET figs == out.value.figs
                 N == 15
             IN  /\ Ranked(figs.races_country, Groups(frame.dff, "country"),
                           "country", "raceId", N,
                           LAMBDA k : RacesOf(frame.dff, "country", k))
                 /\ Ranked(figs.top_circuits, Groups(frame.dff, "name_circuit"),
                           "name_circuit", "raceId", N,
                           LAMBDA k : RacesOf(frame.dff, "name_circuit", k))
                 /\ Ranked(figs.driver_nat, Groups(frame.winners_dff, "nationality_driver"),
                           "nationality_driver", "wins", N,
                           LAMBDA k : CountOf(frame.winners_dff, "nationality_driver", k))
                 /\ Ranked(figs.driver_wins, Groups(frame.winners_dff, "driver_name"),
                           "driver_name", "raceId", N,
                           LAMBDA k : CountOf(frame.winners_dff, "driver_name", k))
                 /\ Ranked(figs.constructor_wins,
                           Groups(frame.winners_dff, "name_constructor"),
                           "name_constructor", "raceId", N,
                           LAMBDA k : CountOf(frame.winners_dff, "name_constructor", k))
                 /\ Ranked(figs.driver_podiums, Groups(frame.podiums_dff, "driver_name"),
                           "driver_name", "raceId", N,
                           LAMBDA k : CountOf(frame.podiums_dff, "driver_name", k))
                 /\ Ranked(figs.constructor_podiums,
                           Groups(frame.podiums_dff, "name_constructor"),
                           "name_constructor", "raceId", N,
                           LAMBDA k : CountOf(frame.podiums_dff, "name_constructor", k))
                 /\ Ranked(figs.driver_poles, Groups(frame.poles_dff, "driver_name"),
                           "driver_name", "raceId", N,
                           LAMBDA k : CountOf(frame.poles_dff, "driver_name", k))
                 /\ Ranked(figs.constructor_poles,
                           Groups(frame.poles_dff, "name_constructor"),
                           "name_constructor", "raceId", N,
                           LAMBDA k : CountOf(frame.poles_dff, "name_constructor", k))
        ELSE out.value.kind = "bar" =>
                 LET key == IF out.cb = "update_circuit_constructor_winners_chart"
                            THEN "name_constructor" ELSE "driver_name"
                 IN  Ranked(out.value, Groups(frame.dff, key), key, out.value.x, 10,
                            LAMBDA k : RacesOf(frame.dff, key, k))

\* more than 15 drivers won in the range, one of them more often than another
C8_Witness ==
    /\ Responded /\ out.cb = Overview /\ out.status = "returned"
    /\ Cardinality(Groups(frame.winners_dff, "driver_name")) > 15
    /\ Len(out.value.figs.driver_wins.rows) = 15
    /\ \E r \in Range(out.value.figs.driver_wins.rows) : r.raceId > 1
    /\ \E r \in Range(out.value.figs.driver_wins.rows) : r.raceId = 1

LineCharts == {"update_driver_line_chart", "update_constructor_line_chart"}

\* C9: in the two cumulative-wins charts the values of a driver (constructor)
\* in ascending year order are non-decreasing, each is the number of that
\* driver's win rows of the filtered table up to and including the row's
\* year, and the last is the number of all that driver's rows in the
\* filtered table.
C9_CumulativeWins ==
    (Responded /\ out.cb \in LineCharts /\ out.status = "returned"
               /\ out.value.kind = "line") =>
        LET part == CallbackColumn(out.cb)
            rows == out.value.rows
            dff == frame.dff
            Wins(p, y) == Cardinality({i \in 1..Len(dff) :
                                           dff[i][part] = p /\ dff[i].year <= y})
        IN  /\ Groups(rows, part) = Groups(dff, part)
            /\ \A i \in 1..Len(rows) :
                   rows[i].cumulative_wins = Wins(rows[i][part], rows[i].year)
            /\ \A i, j \in 1..Len(rows) :
                   (i < j /\ rows[i][part] = rows[j][part]) =>
                       /\ rows[i].year < rows[j].year
                       /\ rows[i].cumulative_wins <= rows[j].cumulative_wins
            /\ \A p \in Groups(dff, part) :
                   \E i \in 1..Len(rows) :
                       /\ rows[i][part] = p
                       /\ \A j \in 1..Len(rows) : rows[j][part] = p => j <= i
                       /\ rows[i].cumulative_wins = CountOf(dff, part, p)

\* two drivers are plotted, one of them with wins in two seasons
C9_Witness ==
    /\ Responded /\ out.cb = "update_driver_line_chart" /\ out.value.kind = "line"
    /\ Cardinality(Groups(out.value.rows, "driver_name")) = 2
    /\ \E i, j \in 1..Len(out.value.rows) :
           /\ i < j
           /\ out.value.rows[i].driver_name = out.value.rows[j].driver_name
           /\ out.value.rows[i].cumulative_wins = 2
           /\ out.value.rows[j].cumulative_wins = 3

\* C10 (as claimed): every value plotted in the driver cumulative-wins chart
\* is the driver's career wins up to that year: the number of rows of winners
\* for the driver with year <= Y, whatever the lower end of the year range.
C10_CareerWins ==
    (Responded /\ out.cb = "update_driver_line_chart" /\ out.status = "returned"
               /\ out.value.kind = "line") =>
        \A r \in Range(out.value.rows) :
            r.cumulative_wins =
                Cardinality({i \in 1..Len(winners.rows) :
                                 /\ winners.rows[i].driver_name = r.driver_name
                                 /\ winners.rows[i].year <= r.year})

\* the merges and the derived views have been computed
Prepared == (pc \in {108, Serving} /\ exc = "none") \/ exc = "TypeError"

\* the result rows of the file with this position or grid text, joined
JoinedWhere(col, texts) ==
    Range(Coerced(MergedRowsOf(SelectSeq(results.rows, LAMBDA r : r[col] \in texts))))

\* C11: joining results to races, drivers, constructors and circuits and then
\* keeping position == 1 gives the same set of rows as keeping the result
\* rows with position == 1 first and joining them; likewise for the podium
\* filter (position 1, 2 or 3) and the pole filter (grid == 1).
C11_FilterJoinCommute ==
    Prepared =>
        /\ Range(winners.rows) = JoinedWhere("position", {"1"})
        /\ Range(podiums.rows) = JoinedWhere("position", {"1", "2", "3"})
        /\ Range(poles.rows) = JoinedWhere("grid", {"1"})

\* a results table with a row that the join drops, a race in which the pole
\* sitter is not the winner, and rows in all three views
C11_Witness ==
    /\ Prepared
    /\ Len(df.rows) < Len(results.rows)
    /\ winners.rows # <<>>
    /\ Range(winners.rows) # Range(podiums.rows)
    /\ Range(poles.rows) \ Range(winners.rows) # {}

Ids(rows, col) == {r[col] : r \in Range(rows)}
UniqueIn(rows, col) == Cardinality(Ids(rows, col)) = Len(rows)
UniqueIds ==
    /\ UniqueIn(races.rows, "raceId") /\ UniqueIn(drivers.rows, "driverId")
    /\ UniqueIn(constructors.rows, "constructorId")
    /\ UniqueIn(circuits.rows, "circuitId")

\* the result row refers to a race, a driver and a constructor of the files,
\* and that race to a circuit of the file
Resolves(r) ==
    /\ r.driverId \in Ids(drivers.rows, "driverId")
    /\ r.constructorId \in Ids(constructors.rows, "constructorId")
    /\ \E race \in Range(races.rows) :
           /\ race.raceId = r.raceId
           /\ race.circuitId \in Ids(circuits.rows, "circuitId")

DiskReadable ==
    \A i \in 1..Len(FileNames) :
        /\ disk[FileNames[i]].status = "ok"
        /\ KeyColumn[FileNames[i]] \in disk[FileNames[i]].cols

\* C12: when the identifiers of races, drivers, constructors and circuits are
\* unique, the fact table has exactly one row for each result row whose
\* references resolve and none for any other result row; the merges raise
\* nothing when they drop rows.
C12_OneRowPerResolvedResult ==
    /\ DiskReadable => (pc # 62 /\ exc # "KeyError")
    /\ (Prepared /\ UniqueIds) =>
           /\ Ids(df.rows, "resultId") =
                  {r.resultId : r \in {x \in Range(results.rows) : Resolves(x)}}
           /\ UniqueIn(df.rows, "resultId")

\* a result row with an unknown driver was dropped, the others were kept
C12_Witness ==
    /\ Prepared /\ UniqueIds
    /\ \E r \in Range(results.rows) : ~Resolves(r)
    /\ Len(df.rows) > 1
    /\ Len(df.rows) < Len(results.rows)

\* the text of a cell of the results file of a fact row
RawCell(r, col) ==
    (CHOOSE x \in Range(results.rows) : x.resultId = r.resultId)[col]

\* C13: after a successful load winners is exactly the fact rows whose
\* position is the number 1, podiums those whose position is 1, 2 or 3, and
\* poles those whose grid is the number 1; a fact row whose position is
\* missing or not numeric is in neither winners nor podiums, and one whose
\* grid is missing or not numeric is not in poles.
C13_DerivedViews ==
    Prepared =>
        /\ ExactlyRows(winners.rows, {r \in Range(df.rows) : RawCell(r, "position") = "1"})
        /\ ExactlyRows(podiums.rows,
               {r \in Range(df.rows) : RawCell(r, "position") \in {"1", "2", "3"}})
        /\ ExactlyRows(poles.rows, {r \in Range(df.rows) : RawCell(r, "grid") = "1"})
        /\ \A r \in Range(df.rows) :
               /\ RawCell(r, "position") \notin Range(NumText) =>
                      (r \notin Range(winners.rows) /\ r \notin Range(podiums.rows))
               /\ RawCell(r, "grid") \notin Range(NumText) => r \notin Range(poles.rows)

\* a non-finisher on pole, a finisher without a grid position, and a podium
\* finisher who did not win
C13_Witness ==
    /\ Prepared
    /\ \E r \in Range(poles.rows) : RawCell(r, "position") \notin Range(NumText)
    /\ \E r \in Range(podiums.rows) :
           RawCell(r, "grid") \notin Range(NumText) /\ r \notin Range(winners.rows)
    /\ winners.rows # <<>>

\* C14: no callback changes df, winners, podiums, poles, driver_points,
\* constructor_points, min_year, max_year or the option lists: once the
\* application serves, every step leaves them as they were.
C14_CallbacksKeepDataset == [][pc = Serving => views' = views]_vars

\* the overview callback has filtered rows away into its local tables and
\* the module-level tables still hold them
C14_Witness ==
    /\ Responded /\ out.cb = Overview /\ frame # None
    /\ Len(frame.dff) < Len(df.rows)
    /\ Len(frame.winners_dff) < Len(winners.rows)
    /\ frame.winners_dff # <<>>

\* C15: the output of a callback depends only on its arguments and on the
\* loaded dataset: in any interleaving of the invocations of several
\* sessions, an invocation with the arguments of an earlier one returns (or
\* raises) exactly what the earlier one did.
C15_SessionsIndependent ==
    (out # None /\ earlier # None /\ out.cb = earlier.cb
        /\ out.year_range = earlier.year_range /\ out.selected = earlier.selected)
    => out = earlier

\* a chart with data is returned a second time, after another session was
\* answered
C15_Witness ==
    /\ out # None /\ earlier # None /\ out = earlier
    /\ out.cb = "update_driver_line_chart"
    /\ out.status = "returned" /\ out.value.kind = "line"

\* the overview callback has returned and its local tables are at hand
OverviewReturned ==
    Responded /\ out.cb = Overview /\ out.status = "returned"

\* the wins of three drivers: 103 wins races 1-5 and 101 races 6-8, all of
\* them from 2001 to 2008; 102 wins only race 9, in 2011
ScenarioWinners ==
    [i \in 1..9 |->
        [raceId |-> i,
         year |-> IF i = 9 THEN 2011 ELSE 2000 + i,
         driver_name |-> IF i <= 5 THEN 103 ELSE IF i <= 8 THEN 101 ELSE 102]]

\* lines 571 and 634 applied to the scenario, with N = 2
ScenarioTop ==
    NLargest(GroupCount(ByYear(ScenarioWinners, <<2000, 2010>>), "driver_name", "raceId"),
             2, "raceId")

\* C16: the top-N result of the per-driver win count over a year range is in
\* non-increasing order of win count and has no driver without a win in the
\* range; for drivers with 5, 3 and 0 wins in [2000, 2010] and N = 2 it is
\* the 5-win driver followed by the 3-win driver.
C16_DriverWinsTop ==
    /\ OverviewReturned =>
           LET top == frame.tops.driver_wins
           IN  /\ \A i \in 1..(Len(top) - 1) : top[i].raceId >= top[i + 1].raceId
               /\ \A i \in 1..Len(top) :
                      /\ top[i].raceId >= 1
                      /\ \E r \in Range(winners.rows) :
                             /\ r.driver_name = top[i].driver_name
                             /\ out.year_range[1] <= r.year
                             /\ r.year <= out.year_range[2]
    /\ ScenarioTop = <<[driver_name |-> 103, raceId |-> 5],
                       [driver_name |-> 101, raceId |-> 3]>>

\* two drivers listed with different win counts, the second by key first,
\* and a driver who raced in the range without a win is not listed
C16_Witness ==
    /\ OverviewReturned
    /\ LET top == frame.tops.driver_wins
       IN  /\ Len(top) >= 2
           /\ top[1].raceId > top[2].raceId
           /\ top[1].driver_name > top[2].driver_name
           /\ \E r \in Range(frame.dff) :
                  \A i \in 1..Len(top) : top[i].driver_name # r.driver_name

\* the columns that the callbacks read from df, winners, podiums and poles
CallbackCols ==
    {"raceId", "driverId", "constructorId", "year", "country", "driver_name",
     "name_constructor", "name_circuit", "nationality_driver",
     "nationality_constructor"}

\* C17 (as claimed): after a failed load each fallback table has the columns
\* that the table has after a successful load; the fallback df, winners,
\* podiums and poles have every column the callbacks read from them.
C17_FallbackColumns ==
    (MissingFile /\ pc \in {108, Serving}) =>
        /\ \A t \in {df, winners, podiums, poles} :
               /\ t.cols = ResultsCols \cup JoinedCols
               /\ CallbackCols \subseteq t.cols
        /\ driver_points.cols = {"year", "driver_name", "points"}
        /\ constructor_points.cols = {"year", "name_constructor", "points"}

PointsCharts == {"update_driver_points_chart", "update_constructor_points_chart"}

\* the fact rows of a season and a driver (constructor)
PairRows(key, k, year) ==
    SelectSeq(df.rows, LAMBDA r : r.year = year /\ r[key] = k)

\* the points of rows, a cell without a number counted as zero
PointsTotal(rows) ==
    LET total[i \in 0..Len(rows)] ==
            IF i = 0 THEN 0
            ELSE total[i - 1] + (IF rows[i].points = NaN THEN 0 ELSE rows[i].points)
    IN  total[Len(rows)]

\* C18: a value of a points-per-season chart is the sum of the points of the
\* pair's fact rows of that year, rows without numeric points counted as
\* zero; the chart's table is what filtering the fact table by year range
\* and selection and summing afterwards gives, so the value of a pair is the
\* same in every year range that contains it.
C18_PointsPerSeason ==
    (Responded /\ out.cb \in PointsCharts /\ out.status = "returned"
               /\ out.value.kind = "line") =>
        LET key == CallbackColumn(out.cb)
            chart == out.value.rows
            filtered == SelectSeq(df.rows,
                            LAMBDA r : /\ out.year_range[1] <= r.year
                                       /\ r.year <= out.year_range[2]
                                       /\ r[key] \in out.selected.items)
        IN  /\ \A i \in 1..Len(chart) :
                   /\ PairRows(key, chart[i][key], chart[i].year) # <<>>
                   /\ chart[i].points =
                          PointsTotal(PairRows(key, chart[i][key], chart[i].year))
            /\ ExactlyRows(chart,
                   {[c \in {"year", key, "points"} |->
                        IF c = "points" THEN PointsTotal(PairRows(key, r[key], r.year))
                        ELSE r[c]] : r \in Range(filtered)})

\* a chart with a season total of two scoring rows and a season whose only
\* row has no numeric points and is plotted as zero
C18_Witness ==
    /\ Responded /\ out.cb = "update_driver_points_chart" /\ out.status = "returned"
    /\ out.value.kind = "line"
    /\ \E i, j \in 1..Len(out.value.rows) :
           LET a == out.value.rows[i]
               b == out.value.rows[j]
           IN  /\ a.points = 20
               /\ Len(PairRows("driver_name", a.driver_name, a.year)) = 2
               /\ b.points = 0
               /\ \A r \in Range(PairRows("driver_name", b.driver_name, b.year)) :
                      r.points = NaN

\* a per-circuit callback has drawn its bar chart
CircuitReturned ==
    /\ Responded /\ out.status = "returned" /\ frame # None
    /\ out.cb \in {"update_circuit_winners_chart",
                   "update_circuit_constructor_winners_chart",
                   "update_circuit_poles_chart"}
    /\ out.value.kind = "bar"

CircuitKey ==
    IF out.cb = "update_circuit_constructor_winners_chart"
    THEN "name_constructor" ELSE "driver_name"

\* rows of top with equal values are in ascending order of their keys, and
\* a group left out that ties with a row of top has the larger key
TiesByKey(top, groups, key, val, Agg(_)) ==
    LET shown == {r[key] : r \in Range(top)}
    IN  /\ \A i, j \in 1..Len(top) :
               (i < j /\ top[i][val] = top[j][val]) => top[i][key] < top[j][key]
        /\ \A r \in Range(top) :
               \A k \in groups \ shown : Agg(k) = r[val] => r[key] < k

\* C19: groups that tie on the aggregate are ranked in their order in the
\* aggregated table, the ascending order of the group key: of the groups
\* tied at the cut-off the top-N result keeps those whose key sorts first,
\* and groups with equal values keep their relative order.
C19_TiesByGroupKey ==
    /\ OverviewReturned =>
             /\ TiesByKey(frame.tops.races_country, Groups(frame.dff, "country"),
                    "country", "raceId",
                    LAMBDA k : RacesOf(frame.dff, "country", k))
             /\ TiesByKey(frame.tops.top_circuits, Groups(frame.dff, "name_circuit"),
                    "name_circuit", "raceId",
                    LAMBDA k : RacesOf(frame.dff, "name_circuit", k))
             /\ TiesByKey(frame.tops.driver_nat, Groups(frame.winners_dff, "nationality_driver"),
                    "nationality_driver", "wins",
                    LAMBDA k : CountOf(frame.winners_dff, "nationality_driver", k))
             /\ TiesByKey(frame.tops.driver_wins, Groups(frame.winners_dff, "driver_name"),
                    "driver_name", "raceId",
                    LAMBDA k : CountOf(frame.winners_dff, "driver_name", k))
             /\ TiesByKey(frame.tops.constructor_wins, Groups(frame.winners_dff, "name_constructor"),
                    "name_constructor", "raceId",
                    LAMBDA k : CountOf(frame.winners_dff, "name_constructor", k))
             /\ TiesByKey(frame.tops.driver_podiums, Groups(frame.podiums_dff, "driver_name"),
                    "driver_name", "raceId",
                    LAMBDA k : CountOf(frame.podiums_dff, "driver_name", k))
             /\ TiesByKey(frame.tops.constructor_podiums, Groups(frame.podiums_dff, "name_constructor"),
                    "name_constructor", "raceId",
                    LAMBDA k : CountOf(frame.podiums_dff, "name_constructor", k))
             /\ TiesByKey(frame.tops.driver_poles, Groups(frame.poles_dff, "driver_name"),
                    "driver_name", "raceId",
                    LAMBDA k : CountOf(frame.poles_dff, "driver_name", k))
             /\ TiesByKey(frame.tops.constructor_poles, Groups(frame.poles_dff, "name_constructor"),
                    "name_constructor", "raceId",
                    LAMBDA k : CountOf(frame.poles_dff, "name_constructor", k))
    /\ CircuitReturned =>
           TiesByKey(frame.top, Groups(frame.dff, CircuitKey), CircuitKey, out.value.x,
                     LAMBDA k : RacesOf(frame.dff, CircuitKey, k))

\* more drivers tie on one win than the fifteen rows have room for: some of
\* them are listed, in key order, and some are left out
C19_Witness ==
    /\ OverviewReturned
    /\ LET top == frame.tops.driver_wins
           shown == {r.driver_name : r \in Range(top)}
       IN  /\ Len(top) = TopOverview
           /\ top[1].raceId > top[TopOverview].raceId
           /\ top[TopOverview - 1].raceId = top[TopOverview].raceId
           /\ \E k \in Groups(frame.winners_dff, "driver_name") \ shown :
                  CountOf(frame.winners_dff, "driver_name", k) = top[TopOverview].raceId

\* the table of a horizontal bar chart holds the rows of top, each once, in
\* non-decreasing order of the value
BarsOf(fig, top, val) ==
    /\ Len(fig.rows) = Len(top)
    /\ \A r \in Range(top) :
           Cardinality({i \in 1..Len(top) : top[i] = r})
               = Cardinality({i \in 1..Len(fig.rows) : fig.rows[i] = r})
    /\ \A i \in 1..(Len(fig.rows) - 1) : fig.rows[i][val] <= fig.rows[i + 1][val]

\* C20: the table handed to the renderer of every horizontal top-N bar chart
\* (host countries, driver nationality, driver and constructor poles, wins
\* and podiums, top circuits, the three per-circuit charts) holds exactly the
\* rows of the top-N result in non-decreasing order of the aggregate.
C20_BarsAscending ==
    /\ OverviewReturned =>
             /\ BarsOf(out.value.figs.races_country, frame.tops.races_country, "raceId")
             /\ BarsOf(out.value.figs.top_circuits, frame.tops.top_circuits, "raceId")
             /\ BarsOf(out.value.figs.driver_nat, frame.tops.driver_nat, "wins")
             /\ BarsOf(out.value.figs.driver_wins, frame.tops.driver_wins, "raceId")
             /\ BarsOf(out.value.figs.constructor_wins, frame.tops.constructor_wins, "raceId")
             /\ BarsOf(out.value.figs.driver_podiums, frame.tops.driver_podiums, "raceId")
             /\ BarsOf(out.value.figs.constructor_podiums, frame.tops.constructor_podiums, "raceId")
             /\ BarsOf(out.value.figs.driver_poles, frame.tops.driver_poles, "raceId")
             /\ BarsOf(out.value.figs.constructor_poles, frame.tops.constructor_poles, "raceId")
    /\ CircuitReturned => BarsOf(out.value, frame.top, out.value.x)

\* a chart of fifteen bars whose top-N result is in strictly descending
\* order somewhere, so that the renderer's table is in another order
C20_Witness ==
    /\ OverviewReturned
    /\ Len(frame.tops.driver_wins) = TopOverview
    /\ frame.tops.driver_wins[1].raceId > frame.tops.driver_wins[TopOverview].raceId
    /\ out.value.figs.driver_wins.rows # frame.tops.driver_wins
    /\ out.value.figs.driver_wins.rows[TopOverview] = frame.tops.driver_wins[1]

\* C21 (as claimed): in every dataset state, loaded or fallback, the initial
\* value of the year slider lies inside the slider's bounds:
\* min_year <= max_year - 20 <= max_year.
C21_SliderValueInBounds ==
    pc = Serving =>
        /\ slider.value = <<max_year - 20, max_year>>
        /\ slider.min = min_year /\ slider.max = max_year
        /\ slider.min <= slider.value[1]
        /\ slider.value[1] <= slider.value[2]
        /\ slider.value[2] <= slider.max

\* the value of the row of a ranking for a key, if the ranking has one
ListedValue(top, key, k, val) ==
    {top[i][val] : i \in {j \in 1..Len(top) : top[j][key] = k}}

\* every row of the ranking of wins has at most the number of podium rows
\* of its key in the same call, and at most the value listed for the key
\* in the ranking of podiums
PodiumsCoverWins(wins, pods, key) ==
    \A i \in 1..Len(wins) :
        /\ wins[i].raceId <= CountOf(frame.podiums_dff, key, wins[i][key])
        /\ \A p \in ListedValue(pods, key, wins[i][key], "raceId") : wins[i].raceId <= p

\* C22: winners is a subset of podiums and podiums of the fact table, so in
\* every call of update_overview_graphs the podium count of a driver (of a
\* constructor) is at least the win count of the same call.
C22_PodiumsAtLeastWins ==
    /\ Prepared =>
           /\ Range(winners.rows) \subseteq Range(podiums.rows)
           /\ Range(podiums.rows) \subseteq Range(df.rows)
    /\ OverviewReturned =>
           /\ Range(frame.winners_dff) \subseteq Range(frame.podiums_dff)
           /\ PodiumsCoverWins(frame.tops.driver_wins, frame.tops.driver_podiums,
                               "driver_name")
           /\ PodiumsCoverWins(frame.tops.constructor_wins,
                               frame.tops.constructor_podiums, "name_constructor")

\* a driver listed with wins and with more podiums than wins
C22_Witness ==
    /\ OverviewReturned
    /\ \E i \in 1..Len(frame.tops.driver_wins) :
           LET w == frame.tops.driver_wins[i]
           IN  /\ w.raceId >= 1
               /\ \E p \in ListedValue(frame.tops.driver_podiums, "driver_name",
                                       w.driver_name, "raceId") : p > w.raceId

\* the sum of the bar heights of a chart
BarSum(fig) ==
    LET total[i \in 0..Len(fig.rows)] ==
            IF i = 0 THEN 0 ELSE total[i - 1] + fig.rows[i][fig.y]
    IN  total[Len(fig.rows)]

\* C23: in every call of update_overview_graphs the 'Total Races' KPI is the
\* sum of the bar heights of the 'Races Per Season' chart of the same call,
\* and every season of the chart lies in the selected range and has at
\* least one race.
C23_RacesKpiIsSeasonSum ==
    OverviewReturned =>
        LET fig == out.value.figs.races_season
        IN  /\ fig.x = "year" /\ fig.y = "raceId"
            /\ out.value.kpi_races = FormatThousands(BarSum(fig))
            /\ \A i \in 1..Len(fig.rows) :
                   /\ out.year_range[1] <= fig.rows[i].year
                   /\ fig.rows[i].year <= out.year_range[2]
                   /\ fig.rows[i].raceId >= 1
                   /\ fig.rows[i].raceId =
                          Cardinality({r.raceId : r \in {x \in Range(df.rows) :
                                                          x.year = fig.rows[i].year}})

\* two seasons are shown, one of them with several races, each race with
\* several result rows
C23_Witness ==
    /\ OverviewReturned
    /\ Len(out.value.figs.races_season.rows) = 2
    /\ \E i \in 1..2 : out.value.figs.races_season.rows[i].raceId >= 2
    /\ Len(frame.dff) > BarSum(out.value.figs.races_season)
    /\ out.value.kpi_races = <<BarSum(out.value.figs.races_season)>>

\* the year range wide contains the year range narrow
Contains(wide, narrow) == wide[1] <= narrow[1] /\ narrow[2] <= wide[2]

\* every count of the groupby of the narrow table is at most the count of
\* the same key in the groupby of the table filtered by the wide range
CountsGrow(narrow_dff, table, wide, key) ==
    LET small == GroupCount(narrow_dff, key, "raceId")
        large == GroupCount(ByYear(table.rows, wide), key, "raceId")
    IN  \A i \in 1..Len(small) :
            \E j \in 1..Len(large) :
                large[j][key] = small[i][key] /\ small[i].raceId <= large[j].raceId

\* the KPI of a column: the number of its distinct values
Distinct(rows, col) == Cardinality({r[col] : r \in Range(rows)})

\* C24: widening the year range never lowers a count: the 'Total Races' and
\* 'Total Drivers' KPIs and the win, podium and pole count of every driver
\* and constructor of a call are at most those that update_overview_graphs
\* computes for any year range that contains the call's range.
C24_WideningKeepsCounts ==
    OverviewReturned =>
        /\ out.value.kpi_races = FormatThousands(Distinct(frame.dff, "raceId"))
        /\ out.value.kpi_drivers = FormatThousands(Distinct(frame.dff, "driverId"))
        /\ \A wide \in YearRanges :
               Contains(wide, out.year_range) =>
                   /\ Distinct(frame.dff, "raceId")
                          <= Distinct(ByYear(df.rows, wide), "raceId")
                   /\ Distinct(frame.dff, "driverId")
                          <= Distinct(ByYear(df.rows, wide), "driverId")
                   /\ \A key \in {"driver_name", "name_constructor"} :
                          /\ CountsGrow(frame.winners_dff, winners, wide, key)
                          /\ CountsGrow(frame.podiums_dff, podiums, wide, key)
                          /\ CountsGrow(frame.poles_dff, poles, wide, key)

\* a call for one season with races, and a wider range in which there are
\* more races and a driver of the call has more wins
C24_Witness ==
    /\ OverviewReturned
    /\ out.year_range[1] = out.year_range[2]
    /\ frame.winners_dff # <<>>
    /\ \E wide \in YearRanges :
           /\ Contains(wide, out.year_range)
           /\ Distinct(frame.dff, "raceId") < Distinct(ByYear(df.rows, wide), "raceId")
           /\ \E r \in Range(frame.winners_dff) :
                  CountOf(frame.winners_dff, "driver_name", r.driver_name)
                      < CountOf(ByYear(winners.rows, wide), "driver_name", r.driver_name)

====
